---- MODULE Spec2Model ----
(***************************************************************************)
(* Model of assets/js/adminlte.js: the sidebar / treeview handlers of the  *)
(* admin theme.  The state is the part of the DOM the handlers read and    *)
(* write (window.innerWidth, the class lists of the body, of the           *)
(* #main-sidebar element and of the submenu containers), the listeners     *)
(* registered so far, and a record of the last two dispatched events.      *)
(***************************************************************************)
EXTENDS Integers, FiniteSets, Sequences, TLC

\* The viewport breakpoint compared against window.innerWidth.
Breakpoint == 991

\* Number of submenu containers (li elements holding a treeview link).
NumMenus == 2

\* Submenu containers of the document.
Menus == 1..NumMenus

\* Treeview links handed to toggleTreeview: link m sits in container m; the
\* last link is detached (its parentElement is null).
Links == 1..(NumMenus + 1)

\* Representative window widths: well inside each range and both sides of
\* the breakpoint.
Widths == {500, Breakpoint, Breakpoint + 1, 1200}

\* Where a click lands: inside #main-sidebar, inside .sidebar-toggle, inside
\* a .sidebar-toggle nested in #main-sidebar, or anywhere else.
Targets == {"sidebar", "toggle", "both", "outside"}

VARIABLES
    innerWidth,        \* window.innerWidth
    bodyClassList,     \* document.body.classList
    sidebarClassList,  \* classList of #main-sidebar (empty when absent)
    menuClassList,     \* classList of each submenu container
    hasSidebar,        \* document.getElementById('main-sidebar') # null
    hasToggle,         \* document.querySelector('.sidebar-toggle') # null
    listeners,         \* event types with a listener registered by the script
    last,              \* the event dispatched last, with the state it found
    before,            \* the event dispatched before that one
    forcedClosed       \* handleResize cleared sidebar-open in the desktop
                       \* range and no mobile toggleSidebar() has run since

vars == <<innerWidth, bodyClassList, sidebarClassList, menuClassList,
          hasSidebar, hasToggle, listeners, last, before, forcedClosed>>

dom == <<bodyClassList, sidebarClassList, menuClassList>>
env == <<hasSidebar, hasToggle>>

----------------------------------------------------------------------------
\* DOMTokenList operations used by the handlers.

\* classList.contains(c)
ClassContains(cl, c) == c \in cl

\* classList.toggle(c)
ClassToggle(cl, c) == IF c \in cl THEN cl \ {c} ELSE cl \cup {c}

\* classList.remove(c)
ClassRemove(cl, c) == cl \ {c}

\* element.parentElement of a treeview link: the set holding its container,
\* empty when the link has no parent.
parentElement(element) == {m \in Menus : m = element}

\* sidebar.contains(event.target)
sidebarContains(target) == target \in {"sidebar", "both"}

\* sidebarToggle.contains(event.target)
sidebarToggleContains(target) == target \in {"toggle", "both"}

----------------------------------------------------------------------------
\* The record kept of a dispatched event: what was dispatched (ev), which
\* function of the script ran (op, "none" when no listener was registered),
\* its arguments, whether it threw, whether event.preventDefault() was
\* called, and the width and the class lists it started from.
Event(ev, op, link, target, fault, prevented) ==
    [ev |-> ev, op |-> op, link |-> link, target |-> target,
     fault |-> fault, prevented |-> prevented,
     width |-> innerWidth, body |-> bodyClassList,
     sidebar |-> sidebarClassList, menu |-> menuClassList]

Record(e) ==
    /\ last' = e
    /\ before' = last
    /\ forcedClosed' =
         IF e.op = "handleResize" /\ e.width > 991 /\ "sidebar-open" \in e.sidebar
         THEN TRUE
         ELSE IF e.op = "toggleSidebar" /\ e.width <= 991
         THEN FALSE
         ELSE forcedClosed

Init ==
    /\ innerWidth \in Widths
    /\ bodyClassList \in SUBSET {"sidebar-collapse"}
    /\ hasSidebar \in BOOLEAN
    /\ hasToggle \in BOOLEAN
    /\ sidebarClassList \in SUBSET {"sidebar-open"}
    /\ (~hasSidebar => sidebarClassList = {})
    /\ menuClassList \in [Menus -> SUBSET {"menu-open"}]
    /\ listeners = {}
    /\ last = Event("load", "none", 0, "none", FALSE, FALSE)
    /\ before = last
    /\ forcedClosed = FALSE

----------------------------------------------------------------------------
\* The user resizes the window: only the width changes.
SetWidth(w) ==
    /\ w # innerWidth
    /\ innerWidth' = w
    /\ Record(Event("setWidth", "none", 0, "none", FALSE, FALSE))
    /\ UNCHANGED <<dom, env, listeners>>

\* toggleSidebar() with the two branches exchanged.
toggleSidebar_swapped ==
    IF innerWidth <= Breakpoint
    THEN /\ bodyClassList' = ClassToggle(bodyClassList, "sidebar-collapse")
         /\ Record(Event("call", "toggleSidebar", 0, "none", FALSE, FALSE))
         /\ UNCHANGED <<innerWidth, sidebarClassList, menuClassList, env,
                        listeners>>
    ELSE IF hasSidebar
    THEN /\ sidebarClassList' = ClassToggle(sidebarClassList, "sidebar-open")
         /\ Record(Event("call", "toggleSidebar", 0, "none", FALSE, FALSE))
         /\ UNCHANGED <<innerWidth, bodyClassList, menuClassList, env,
                        listeners>>
    ELSE /\ Record(Event("call", "toggleSidebar", 0, "none", TRUE, FALSE))
         /\ UNCHANGED <<innerWidth, dom, env, listeners>>

\* toggleSidebar() using classList.add in place of classList.toggle.
toggleSidebar_add ==
    IF innerWidth > Breakpoint
    THEN /\ bodyClassList' = bodyClassList \cup {"sidebar-collapse"}
         /\ Record(Event("call", "toggleSidebar", 0, "none", FALSE, FALSE))
         /\ UNCHANGED <<innerWidth, sidebarClassList, menuClassList, env,
                        listeners>>
    ELSE IF hasSidebar
    THEN /\ sidebarClassList' = sidebarClassList \cup {"sidebar-open"}
         /\ Record(Event("call", "toggleSidebar", 0, "none", FALSE, FALSE))
         /\ UNCHANGED <<innerWidth, bodyClassList, menuClassList, env,
                        listeners>>
    ELSE /\ Record(Event("call", "toggleSidebar", 0, "none", TRUE, FALSE))
         /\ UNCHANGED <<innerWidth, dom, env, listeners>>

\* toggleSidebar() deciding from the width the previous event saw.
toggleSidebar_stale ==
    IF last.width > Breakpoint
    THEN /\ bodyClassList' = ClassToggle(bodyClassList, "sidebar-collapse")
         /\ Record(Event("call", "toggleSidebar", 0, "none", FALSE, FALSE))
         /\ UNCHANGED <<innerWidth, sidebarClassList, menuClassList, env,
                        listeners>>
    ELSE IF hasSidebar
    THEN /\ sidebarClassList' = ClassToggle(sidebarClassList, "sidebar-open")
         /\ Record(Event("call", "toggleSidebar", 0, "none", FALSE, FALSE))
         /\ UNCHANGED <<innerWidth, bodyClassList, menuClassList, env,
                        listeners>>
    ELSE /\ Record(Event("call", "toggleSidebar", 0, "none", TRUE, FALSE))
         /\ UNCHANGED <<innerWidth, dom, env, listeners>>

\* toggleSidebar() dereferencing the sidebar lookup before the width test.
toggleSidebar_eager ==
    IF ~hasSidebar
    THEN /\ Record(Event("call", "toggleSidebar", 0, "none", TRUE, FALSE))
         /\ UNCHANGED <<innerWidth, dom, env, listeners>>
    ELSE IF innerWidth > Breakpoint
    THEN /\ bodyClassList' = ClassToggle(bodyClassList, "sidebar-collapse")
         /\ Record(Event("call", "toggleSidebar", 0, "none", FALSE, FALSE))
         /\ UNCHANGED <<innerWidth, sidebarClassList, menuClassList, env,
                        listeners>>
    ELSE /\ sidebarClassList' = ClassToggle(sidebarClassList, "sidebar-open")
         /\ Record(Event("call", "toggleSidebar", 0, "none", FALSE, FALSE))
         /\ UNCHANGED <<innerWidth, bodyClassList, menuClassList, env,
                        listeners>>

\* function toggleSidebar()
toggleSidebar ==
    IF innerWidth > Breakpoint
    THEN /\ bodyClassList' = ClassToggle(bodyClassList, "sidebar-collapse")
         /\ Record(Event("call", "toggleSidebar", 0, "none", FALSE, FALSE))
         /\ UNCHANGED <<innerWidth, sidebarClassList, menuClassList, env,
                        listeners>>
    ELSE IF hasSidebar
    THEN /\ sidebarClassList' = ClassToggle(sidebarClassList, "sidebar-open")
         /\ Record(Event("call", "toggleSidebar", 0, "none", FALSE, FALSE))
         /\ UNCHANGED <<innerWidth, bodyClassList, menuClassList, env,
                        listeners>>
    ELSE \* sidebar is null: sidebar.classList throws a TypeError
         /\ Record(Event("call", "toggleSidebar", 0, "none", TRUE, FALSE))
         /\ UNCHANGED <<innerWidth, dom, env, listeners>>

\* toggleTreeview() using classList.add in place of classList.toggle.
toggleTreeview_add(element) ==
    IF parentElement(element) # {}
    THEN /\ menuClassList' =
              [m \in Menus |->
                 IF m \in parentElement(element)
                 THEN menuClassList[m] \cup {"menu-open"}
                 ELSE menuClassList[m]]
         /\ Record(Event("call", "toggleTreeview", element, "none",
                         FALSE, TRUE))
         /\ UNCHANGED <<innerWidth, bodyClassList, sidebarClassList, env,
                        listeners>>
    ELSE /\ Record(Event("call", "toggleTreeview", element, "none",
                         TRUE, TRUE))
         /\ UNCHANGED <<innerWidth, dom, env, listeners>>

\* toggleTreeview() as an accordion: the other submenus are closed.
toggleTreeview_accordion(element) ==
    IF parentElement(element) # {}
    THEN /\ menuClassList' =
              [m \in Menus |->
                 IF m \in parentElement(element)
                 THEN ClassToggle(menuClassList[m], "menu-open")
                 ELSE ClassRemove(menuClassList[m], "menu-open")]
         /\ Record(Event("call", "toggleTreeview", element, "none",
                         FALSE, TRUE))
         /\ UNCHANGED <<innerWidth, bodyClassList, sidebarClassList, env,
                        listeners>>
    ELSE /\ Record(Event("call", "toggleTreeview", element, "none",
                         TRUE, TRUE))
         /\ UNCHANGED <<innerWidth, dom, env, listeners>>

\* function toggleTreeview(element, event)
toggleTreeview(element) ==
    IF parentElement(element) # {}
    THEN /\ menuClassList' =
              [m \in Menus |->
                 IF m \in parentElement(element)
                 THEN ClassToggle(menuClassList[m], "menu-open")
                 ELSE menuClassList[m]]
         /\ Record(Event("call", "toggleTreeview", element, "none",
                         FALSE, TRUE))
         /\ UNCHANGED <<innerWidth, bodyClassList, sidebarClassList, env,
                        listeners>>
    ELSE \* parent is null: parent.classList throws after preventDefault()
         /\ Record(Event("call", "toggleTreeview", element, "none",
                         TRUE, TRUE))
         /\ UNCHANGED <<innerWidth, dom, env, listeners>>

\* handleResize() using classList.toggle in place of classList.remove.
handleResize_toggle ==
    IF innerWidth > Breakpoint
    THEN IF hasSidebar
         THEN /\ sidebarClassList' =
                   ClassToggle(sidebarClassList, "sidebar-open")
              /\ Record(Event("resize", "handleResize", 0, "none",
                              FALSE, FALSE))
              /\ UNCHANGED <<innerWidth, bodyClassList, menuClassList, env,
                             listeners>>
         ELSE /\ Record(Event("resize", "handleResize", 0, "none",
                              TRUE, FALSE))
              /\ UNCHANGED <<innerWidth, dom, env, listeners>>
    ELSE /\ Record(Event("resize", "handleResize", 0, "none", FALSE, FALSE))
         /\ UNCHANGED <<innerWidth, dom, env, listeners>>

\* handleResize() that re-opens the sidebar in the mobile range.
handleResize_restore ==
    IF hasSidebar
    THEN /\ sidebarClassList' =
              IF innerWidth > Breakpoint
              THEN ClassRemove(sidebarClassList, "sidebar-open")
              ELSE sidebarClassList \cup {"sidebar-open"}
         /\ Record(Event("resize", "handleResize", 0, "none", FALSE, FALSE))
         /\ UNCHANGED <<innerWidth, bodyClassList, menuClassList, env,
                        listeners>>
    ELSE /\ Record(Event("resize", "handleResize", 0, "none", TRUE, FALSE))
         /\ UNCHANGED <<innerWidth, dom, env, listeners>>

\* handleResize() that also expands the desktop sidebar.
handleResize_clearsCollapse ==
    IF innerWidth > Breakpoint
    THEN IF hasSidebar
         THEN /\ sidebarClassList' =
                   ClassRemove(sidebarClassList, "sidebar-open")
              /\ bodyClassList' =
                   ClassRemove(bodyClassList, "sidebar-collapse")
              /\ Record(Event("resize", "handleResize", 0, "none",
                              FALSE, FALSE))
              /\ UNCHANGED <<innerWidth, menuClassList, env, listeners>>
         ELSE /\ Record(Event("resize", "handleResize", 0, "none",
                              TRUE, FALSE))
              /\ UNCHANGED <<innerWidth, dom, env, listeners>>
    ELSE /\ Record(Event("resize", "handleResize", 0, "none", FALSE, FALSE))
         /\ UNCHANGED <<innerWidth, dom, env, listeners>>

\* handleResize() that keeps the two flags exclusive: in the mobile range
\* it removes sidebar-collapse from the body.
handleResize_exclusive ==
    IF innerWidth > Breakpoint
    THEN IF hasSidebar
         THEN /\ sidebarClassList' =
                   ClassRemove(sidebarClassList, "sidebar-open")
              /\ Record(Event("resize", "handleResize", 0, "none",
                              FALSE, FALSE))
              /\ UNCHANGED <<innerWidth, bodyClassList, menuClassList, env,
                             listeners>>
         ELSE /\ Record(Event("resize", "handleResize", 0, "none",
                              TRUE, FALSE))
              /\ UNCHANGED <<innerWidth, dom, env, listeners>>
    ELSE /\ bodyClassList' = ClassRemove(bodyClassList, "sidebar-collapse")
         /\ Record(Event("resize", "handleResize", 0, "none", FALSE, FALSE))
         /\ UNCHANGED <<innerWidth, sidebarClassList, menuClassList, env,
                        listeners>>

\* handleResize() with the comparison one pixel off.
handleResize_offByOne ==
    IF innerWidth > Breakpoint + 1
    THEN IF hasSidebar
         THEN /\ sidebarClassList' =
                   ClassRemove(sidebarClassList, "sidebar-open")
              /\ Record(Event("resize", "handleResize", 0, "none",
                              FALSE, FALSE))
              /\ UNCHANGED <<innerWidth, bodyClassList, menuClassList, env,
                             listeners>>
         ELSE /\ Record(Event("resize", "handleResize", 0, "none",
                              TRUE, FALSE))
              /\ UNCHANGED <<innerWidth, dom, env, listeners>>
    ELSE /\ Record(Event("resize", "handleResize", 0, "none", FALSE, FALSE))
         /\ UNCHANGED <<innerWidth, dom, env, listeners>>

\* function handleResize()
handleResize ==
    IF innerWidth > Breakpoint
    THEN IF hasSidebar
         THEN /\ sidebarClassList' =
                   ClassRemove(sidebarClassList, "sidebar-open")
              /\ Record(Event("resize", "handleResize", 0, "none",
                              FALSE, FALSE))
              /\ UNCHANGED <<innerWidth, bodyClassList, menuClassList, env,
                             listeners>>
         ELSE \* sidebar is null: sidebar.classList throws a TypeError
              /\ Record(Event("resize", "handleResize", 0, "none",
                              TRUE, FALSE))
              /\ UNCHANGED <<innerWidth, dom, env, listeners>>
    ELSE /\ Record(Event("resize", "handleResize", 0, "none", FALSE, FALSE))
         /\ UNCHANGED <<innerWidth, dom, env, listeners>>

\* The condition of the anonymous click listener registered on the document
\* is evaluated left to right and stops at the first false conjunct; a
\* conjunct that dereferences a null lookup throws.

\* The condition dereferencing the .sidebar-toggle lookup before the
\* sidebar.contains test.
clickFaults_eagerToggle(target) ==
    /\ innerWidth <= Breakpoint
    /\ \/ ~hasSidebar
       \/ /\ ClassContains(sidebarClassList, "sidebar-open")
          /\ ~hasToggle

\* The evaluation reaches a conjunct that dereferences a null lookup.
clickFaults(target) ==
    /\ innerWidth <= Breakpoint
    /\ \/ ~hasSidebar
       \/ /\ ClassContains(sidebarClassList, "sidebar-open")
          /\ ~sidebarContains(target)
          /\ ~hasToggle

\* The closing condition without the .sidebar-toggle test.
clickCloses_noToggle(target) ==
    /\ innerWidth <= Breakpoint
    /\ hasSidebar
    /\ ClassContains(sidebarClassList, "sidebar-open")
    /\ ~sidebarContains(target)

\* The closing condition without the width test.
clickCloses_noMode(target) ==
    /\ hasSidebar
    /\ ClassContains(sidebarClassList, "sidebar-open")
    /\ ~sidebarContains(target)
    /\ hasToggle
    /\ ~sidebarToggleContains(target)

\* The whole condition holds: the listener removes sidebar-open.
clickCloses(target) ==
    /\ innerWidth <= Breakpoint
    /\ hasSidebar
    /\ ClassContains(sidebarClassList, "sidebar-open")
    /\ ~sidebarContains(target)
    /\ hasToggle
    /\ ~sidebarToggleContains(target)

\* The anonymous click listener registered on the document.
clickListener(target) ==
    IF clickFaults(target)
    THEN /\ Record(Event("click", "clickListener", 0, target, TRUE, FALSE))
         /\ UNCHANGED <<innerWidth, dom, env, listeners>>
    ELSE IF clickCloses(target)
    THEN /\ sidebarClassList' =
              ClassRemove(sidebarClassList, "sidebar-open")
         /\ Record(Event("click", "clickListener", 0, target, FALSE, FALSE))
         /\ UNCHANGED <<innerWidth, bodyClassList, menuClassList, env,
                        listeners>>
    ELSE /\ Record(Event("click", "clickListener", 0, target, FALSE, FALSE))
         /\ UNCHANGED <<innerWidth, dom, env, listeners>>

\* The DOMContentLoaded callback: registers handleResize on window resize
\* and the click listener on the document.  The event fires once.
DOMContentLoaded ==
    /\ listeners = {}
    /\ listeners' = {"resize", "click"}
    /\ Record(Event("DOMContentLoaded", "init", 0, "none", FALSE, FALSE))
    /\ UNCHANGED <<innerWidth, dom, env>>

----------------------------------------------------------------------------
\* Event dispatch by the browser.

\* An inline handler calls toggleSidebar().
CallToggleSidebar == toggleSidebar

\* An inline handler calls toggleTreeview(this, event) on some link.
CallToggleTreeview == \E element \in Links : toggleTreeview(element)

\* The window fires resize with the listener registered.
ResizeEvent ==
    /\ "resize" \in listeners
    /\ handleResize

\* handleResize bound when the script loads instead of at DOMContentLoaded.
ResizeUnheard_runs ==
    /\ "resize" \notin listeners
    /\ handleResize

\* The window fires resize before any listener is registered.
ResizeUnheard ==
    /\ "resize" \notin listeners
    /\ Record(Event("resize", "none", 0, "none", FALSE, FALSE))
    /\ UNCHANGED <<innerWidth, dom, env, listeners>>

\* A click can only land inside an element the document has.
TargetExists(target) ==
    /\ sidebarContains(target) => hasSidebar
    /\ sidebarToggleContains(target) => hasToggle

\* The document receives a click with the listener registered.
ClickEvent ==
    /\ "click" \in listeners
    /\ \E target \in Targets : TargetExists(target) /\ clickListener(target)

\* The document receives a click before any listener is registered.
ClickUnheard ==
    /\ "click" \notin listeners
    /\ \E target \in Targets :
          /\ TargetExists(target)
          /\ Record(Event("click", "none", 0, target, FALSE, FALSE))
    /\ UNCHANGED <<innerWidth, dom, env, listeners>>

Resize == \E w \in Widths : SetWidth(w)

Next ==
    \/ Resize
    \/ CallToggleSidebar
    \/ CallToggleTreeview
    \/ ResizeEvent
    \/ ResizeUnheard
    \/ ClickEvent
    \/ ClickUnheard
    \/ DOMContentLoaded

Spec == Init /\ [][Next]_vars

\* The delivered document has neither sidebar flag set.
InitClear ==
    /\ Init
    /\ "sidebar-collapse" \notin bodyClassList
    /\ "sidebar-open" \notin sidebarClassList

SpecFromClear == InitClear /\ [][Next]_vars

\* The document is past DOMContentLoaded with sidebar-open absent, and the
\* browser delivers the resize event of a width change before anything else.
InitPrompt ==
    /\ innerWidth \in Widths
    /\ bodyClassList \in SUBSET {"sidebar-collapse"}
    /\ hasSidebar \in BOOLEAN
    /\ hasToggle \in BOOLEAN
    /\ sidebarClassList = {}
    /\ menuClassList \in [Menus -> SUBSET {"menu-open"}]
    /\ listeners = {"resize", "click"}
    /\ last = Event("DOMContentLoaded", "init", 0, "none", FALSE, FALSE)
    /\ before = last
    /\ forcedClosed = FALSE

\* A width change whose resize event has not been delivered yet.
ResizePending == last.ev = "setWidth"

NextPrompt ==
    \/ ResizePending /\ ResizeEvent
    \/ ~ResizePending /\ Resize
    \/ ~ResizePending /\ CallToggleSidebar
    \/ ~ResizePending /\ CallToggleTreeview
    \/ ~ResizePending /\ ClickEvent

SpecPrompt == InitPrompt /\ [][NextPrompt]_vars

----------------------------------------------------------------------------
TypeOK ==
    /\ innerWidth \in Widths
    /\ bodyClassList \subseteq {"sidebar-collapse"}
    /\ sidebarClassList \subseteq {"sidebar-open"}
    /\ menuClassList \in [Menus -> SUBSET {"menu-open"}]
    /\ listeners \in {{}, {"resize", "click"}}
    /\ (~hasSidebar => sidebarClassList = {})

----------------------------------------------------------------------------
\* Vocabulary of the properties: each compares the current class lists with
\* the ones the last (or the one-before-last) event started from.

\* Class c is present in exactly one of the two lists, all else equal.
Flipped(old, new, c) == new = ClassToggle(old, c)

BodySame    == bodyClassList = last.body
SidebarSame == sidebarClassList = last.sidebar
MenuSame    == menuClassList = last.menu
NoFlagChanged == BodySame /\ SidebarSame /\ MenuSame

\* C1: with the sidebar element present, toggleSidebar() at width > 991
\* flips sidebar-collapse on the body and leaves sidebar-open alone; at width
\* <= 991 it flips sidebar-open on the sidebar and leaves sidebar-collapse
\* alone; no menu-open flag changes in either case.
C1_ToggleSidebarEffect ==
    (last.op = "toggleSidebar" /\ hasSidebar) =>
        /\ last.width > 991 =>
              /\ Flipped(last.body, bodyClassList, "sidebar-collapse")
              /\ SidebarSame
        /\ last.width <= 991 =>
              /\ Flipped(last.sidebar, sidebarClassList, "sidebar-open")
              /\ BodySame
        /\ MenuSame

C1_Witness ==
    /\ last.op = "toggleSidebar"
    /\ hasSidebar
    /\ last.width = 500
    /\ "sidebar-open" \notin last.sidebar
    /\ "sidebar-open" \in sidebarClassList
    /\ "sidebar-collapse" \in bodyClassList

\* C2: a click delivered to the registered listener at width <= 991 while
\* the sidebar has sidebar-open removes sidebar-open when the target is
\* outside both the sidebar and the .sidebar-toggle element, and leaves it
\* when the target is inside either; sidebar-collapse and menu-open never
\* change.
C2_OutsideClick ==
    (/\ last.op = "clickListener"
     /\ last.width <= 991
     /\ "sidebar-open" \in last.sidebar) =>
        /\ (hasToggle /\ last.target = "outside") =>
               /\ "sidebar-open" \notin sidebarClassList
               /\ ~last.fault
        /\ last.target \in {"sidebar", "toggle", "both"} =>
               /\ SidebarSame
               /\ ~last.fault
        /\ BodySame
        /\ MenuSame

C2_Witness ==
    /\ last.op = "clickListener"
    /\ last.width = 500
    /\ "sidebar-open" \in last.sidebar
    /\ last.target = "outside"
    /\ hasToggle
    /\ "sidebar-open" \notin sidebarClassList
    /\ before.op = "clickListener"
    /\ before.target = "toggle"
    /\ "sidebar-open" \in before.sidebar

\* C3: a click delivered at width > 991 changes no flag and raises no
\* fault, whatever the target, the value of sidebar-open and the elements
\* the document has.
C3_DesktopClickInert ==
    (last.ev = "click" /\ last.width > 991) =>
        /\ NoFlagChanged
        /\ ~last.fault

C3_Witness ==
    /\ last.op = "clickListener"
    /\ last.width = 1200
    /\ last.target = "outside"
    /\ hasToggle
    /\ "sidebar-open" \in last.sidebar
    /\ "sidebar-open" \in sidebarClassList

\* C4: handleResize() at width > 991 leaves the sidebar without
\* sidebar-open, whatever it had before, and leaves sidebar-collapse and
\* every menu-open flag as they were.
C4_ResizeDesktopClears ==
    (last.op = "handleResize" /\ last.width > 991) =>
        /\ "sidebar-open" \notin sidebarClassList
        /\ BodySame
        /\ MenuSame

C4_Witness ==
    /\ last.op = "handleResize"
    /\ last.width = 1200
    /\ "sidebar-open" \in last.sidebar
    /\ "sidebar-collapse" \in bodyClassList
    /\ "sidebar-open" \notin sidebarClassList

\* C5: handleResize() at width <= 991 changes no flag; and once a resize
\* into the desktop range has cleared sidebar-open it stays absent, through
\* width changes and resize events in either direction, until toggleSidebar()
\* is called at width <= 991.
C5_ResizeMobileInert ==
    /\ (last.op = "handleResize" /\ last.width <= 991) => NoFlagChanged
    /\ last.ev \in {"setWidth", "resize"} =>
          ("sidebar-open" \in sidebarClassList =>
              "sidebar-open" \in last.sidebar)
    /\ forcedClosed => "sidebar-open" \notin sidebarClassList

C5_Witness ==
    /\ forcedClosed
    /\ before.ev = "setWidth"
    /\ before.width = 1200
    /\ last.op = "handleResize"
    /\ last.width = 500
    /\ "sidebar-open" \notin sidebarClassList

\* C6: every toggleTreeview(element, event) call calls
\* event.preventDefault() and flips menu-open on the element's parent; two
\* consecutive calls on the same element put menu-open back to the value it
\* had before the first.
C6_TreeviewPair ==
    /\ last.op = "toggleTreeview" =>
          /\ last.prevented
          /\ \A m \in parentElement(last.link) :
                Flipped(last.menu[m], menuClassList[m], "menu-open")
    /\ (/\ last.op = "toggleTreeview"
        /\ before.op = "toggleTreeview"
        /\ before.link = last.link) =>
          menuClassList = before.menu

C6_Witness ==
    /\ last.op = "toggleTreeview"
    /\ before.op = "toggleTreeview"
    /\ before.link = last.link
    /\ last.link \in Menus
    /\ "menu-open" \in last.menu[last.link]
    /\ "menu-open" \notin menuClassList[last.link]

\* C7: two consecutive toggleSidebar() calls at one width restore
\* sidebar-collapse and sidebar-open to their values before the first call.
C7_SidebarPair ==
    (/\ last.op = "toggleSidebar"
     /\ before.op = "toggleSidebar"
     /\ before.width = last.width) =>
        /\ bodyClassList = before.body
        /\ sidebarClassList = before.sidebar

C7_Witness ==
    /\ last.op = "toggleSidebar"
    /\ before.op = "toggleSidebar"
    /\ before.width = 1200
    /\ last.width = 1200
    /\ "sidebar-collapse" \notin before.body
    /\ "sidebar-collapse" \in last.body
    /\ "sidebar-collapse" \notin bodyClassList
    /\ "sidebar-open" \in sidebarClassList

\* C8: the breakpoint is the same in the three handlers and 991 is mobile:
\* at width 991 toggleSidebar() flips sidebar-open, handleResize() clears
\* nothing and an outside click closes the sidebar; at width 992
\* toggleSidebar() flips sidebar-collapse, handleResize() clears
\* sidebar-open and an outside click does nothing.  The width that counts is
\* the one the handler finds, whatever width the event before it found.
C8_Boundary ==
    /\ (last.op = "toggleSidebar" /\ last.width = 991 /\ hasSidebar) =>
          /\ Flipped(last.sidebar, sidebarClassList, "sidebar-open")
          /\ BodySame
    /\ (last.op = "toggleSidebar" /\ last.width = 992) =>
          /\ Flipped(last.body, bodyClassList, "sidebar-collapse")
          /\ SidebarSame
    /\ (last.op = "handleResize" /\ last.width = 991) => NoFlagChanged
    /\ (last.op = "handleResize" /\ last.width = 992) =>
          "sidebar-open" \notin sidebarClassList
    /\ (/\ last.op = "clickListener"
        /\ last.width = 991
        /\ "sidebar-open" \in last.sidebar
        /\ last.target = "outside"
        /\ hasToggle) =>
          "sidebar-open" \notin sidebarClassList
    /\ (last.op = "clickListener" /\ last.width = 992) => NoFlagChanged

C8_Witness ==
    /\ before.ev = "setWidth"
    /\ before.width = 992
    /\ last.op = "toggleSidebar"
    /\ last.width = 991
    /\ "sidebar-open" \notin last.sidebar
    /\ "sidebar-open" \in sidebarClassList

\* C9: toggleTreeview on a link changes the menu-open flag of that link's
\* parent only, whatever the width, and leaves sidebar-collapse and
\* sidebar-open alone; no other handler changes a menu-open flag.  (That two
\* submenus can be open at once is the witness.)
C9_SubmenusIndependent ==
    /\ last.op = "toggleTreeview" =>
          /\ \A m \in Menus :
                IF m \in parentElement(last.link)
                THEN Flipped(last.menu[m], menuClassList[m], "menu-open")
                ELSE menuClassList[m] = last.menu[m]
          /\ BodySame
          /\ SidebarSame
    /\ last.op # "toggleTreeview" => MenuSame

C9_Witness ==
    /\ last.op = "toggleTreeview"
    /\ last.link \in Menus
    /\ "menu-open" \notin last.menu[last.link]
    /\ \E m \in Menus : m # last.link /\ "menu-open" \in last.menu[m]
    /\ Cardinality({m \in Menus : "menu-open" \in menuClassList[m]}) >= 2

\* C10 as stated: with the sidebar element absent, toggleSidebar() changes
\* no flag at any width.
C10_AbsentSidebarNoChange ==
    (last.op = "toggleSidebar" /\ ~hasSidebar) => NoFlagChanged

\* C10 amended: with the sidebar element absent, toggleSidebar() at width
\* <= 991 throws and changes no flag; at width > 991 it does not throw and
\* flips sidebar-collapse, changing no other flag.
C10_AbsentSidebarMobileOnly ==
    (last.op = "toggleSidebar" /\ ~hasSidebar) =>
        /\ last.width <= 991 => (last.fault /\ NoFlagChanged)
        /\ last.width > 991 =>
              /\ ~last.fault
              /\ Flipped(last.body, bodyClassList, "sidebar-collapse")
              /\ SidebarSame
              /\ MenuSame

C10_Witness ==
    /\ last.op = "toggleSidebar"
    /\ ~hasSidebar
    /\ ~last.fault
    /\ last.width = 1200
    /\ "sidebar-collapse" \notin last.body
    /\ "sidebar-collapse" \in bodyClassList
    /\ before.ev = "setWidth"
    /\ before.width = 500

\* C11: over any sequence of events sidebar-collapse changes only in a
\* toggleSidebar() step taken at width > 991, and sidebar-open goes from
\* absent to present only in a toggleSidebar() step taken at width <= 991;
\* handleResize() and the click listener add no flag, the only change they
\* make is to remove sidebar-open.
C11_FlagsChangeOnlyInMode ==
    /\ ~BodySame => (last.op = "toggleSidebar" /\ last.width > 991)
    /\ ("sidebar-open" \notin last.sidebar
            /\ "sidebar-open" \in sidebarClassList) =>
          (last.op = "toggleSidebar" /\ last.width <= 991)
    /\ last.op \in {"handleResize", "clickListener"} =>
          /\ BodySame
          /\ MenuSame
          /\ sidebarClassList \in
                {last.sidebar, last.sidebar \ {"sidebar-open"}}

C11_Witness ==
    /\ last.op = "clickListener"
    /\ "sidebar-open" \in last.sidebar
    /\ "sidebar-open" \notin sidebarClassList
    /\ "sidebar-collapse" \in bodyClassList
    /\ before.op = "toggleSidebar"
    /\ before.width <= 991
    /\ "sidebar-open" \notin before.sidebar

\* C12: the two sidebar flags are not kept exclusive.  No step other than
\* toggleSidebar() at width > 991 removes sidebar-collapse, so neither a
\* width change into the mobile range nor any handler running there clears
\* it; starting with both flags absent, the state with both present is
\* reached (the witness: collapsed at width > 991, resized to <= 991,
\* toggled again).
C12_CollapseSurvivesMobile ==
    (last.op # "toggleSidebar" \/ last.width <= 991) =>
        ("sidebar-collapse" \in last.body =>
            "sidebar-collapse" \in bodyClassList)

C12_Witness ==
    /\ "sidebar-collapse" \in bodyClassList
    /\ "sidebar-open" \in sidebarClassList
    /\ last.op = "toggleSidebar"
    /\ last.width <= 991
    /\ "sidebar-open" \notin last.sidebar
    /\ before.ev = "setWidth"
    /\ before.width > 991
    /\ "sidebar-collapse" \in before.body

\* C13: started after initialization with sidebar-open absent, and with
\* the resize event of every width change delivered to handleResize() before
\* any other handler runs, the sidebar never has sidebar-open at width > 991
\* once that resize event has been delivered.
C13_DesktopNeverOpen ==
    (innerWidth > 991 /\ ~ResizePending) =>
        "sidebar-open" \notin sidebarClassList

C13_Witness ==
    /\ innerWidth > 991
    /\ last.op = "handleResize"
    /\ "sidebar-open" \in last.sidebar
    /\ "sidebar-open" \notin sidebarClassList
    /\ before.ev = "setWidth"
    /\ before.width <= 991

\* C14: until the DOMContentLoaded callback has run, a resize event or a
\* click runs no function of the script and changes no flag, while
\* toggleSidebar() and toggleTreeview() already have their effect; after it
\* has run, every resize event runs handleResize() and every click runs the
\* click listener.  (The witness: sidebar-open set by toggleSidebar() at
\* width <= 991 is still there after a resize to width > 991 delivered
\* before initialization.)
C14_ListenersAfterInit ==
    /\ (listeners = {} /\ last.ev \in {"resize", "click"}) =>
          (last.op = "none" /\ NoFlagChanged)
    /\ (listeners = {} /\ last.op = "toggleSidebar" /\ hasSidebar) =>
          IF last.width > 991
          THEN Flipped(last.body, bodyClassList, "sidebar-collapse")
          ELSE Flipped(last.sidebar, sidebarClassList, "sidebar-open")
    /\ (listeners = {} /\ last.op = "toggleTreeview") =>
          \A m \in parentElement(last.link) :
              Flipped(last.menu[m], menuClassList[m], "menu-open")
    /\ (listeners # {} /\ last.ev = "resize") => last.op = "handleResize"
    /\ (listeners # {} /\ last.ev = "click") => last.op = "clickListener"

C14_Witness ==
    /\ listeners = {}
    /\ last.ev = "resize"
    /\ last.width > 991
    /\ "sidebar-open" \in sidebarClassList
    /\ before.ev = "setWidth"
    /\ before.width <= 991
    /\ "sidebar-open" \in before.sidebar

\* C15: at width <= 991 a click on the .sidebar-toggle element that runs
\* toggleSidebar() and is then delivered to the document click listener
\* (target inside .sidebar-toggle) flips sidebar-open exactly once overall:
\* a closed sidebar ends open, an open one ends closed.
C15_ToggleClickNetFlip ==
    (/\ before.op = "toggleSidebar"
     /\ before.width <= 991
     /\ hasSidebar
     /\ last.op = "clickListener"
     /\ sidebarToggleContains(last.target)) =>
        /\ Flipped(before.sidebar, sidebarClassList, "sidebar-open")
        /\ ~last.fault
        /\ bodyClassList = before.body
        /\ menuClassList = before.menu

C15_Witness ==
    /\ before.op = "toggleSidebar"
    /\ before.width = 500
    /\ "sidebar-open" \notin before.sidebar
    /\ last.op = "clickListener"
    /\ last.target = "toggle"
    /\ "sidebar-open" \in sidebarClassList

\* C16 as stated: a handler that throws because a looked-up element is
\* absent leaves every flag as it was; and with the .sidebar-toggle element
\* absent the click listener throws exactly when the width is <= 991,
\* sidebar-open is present and the target is outside the sidebar, and
\* sidebar-open then stays present.
C16_ToggleAbsentFaultExactly ==
    /\ last.fault => NoFlagChanged
    /\ (last.op = "clickListener" /\ ~hasToggle) =>
          /\ last.fault <=>
                (/\ last.width <= 991
                 /\ "sidebar-open" \in last.sidebar
                 /\ ~sidebarContains(last.target))
          /\ last.fault => "sidebar-open" \in sidebarClassList

\* C16 amended: the same, the second part for a document that has the
\* sidebar element (without it the listener throws at every click at width
\* <= 991, sidebar-open being absent).
C16_FaultLeavesFlags ==
    /\ last.fault => NoFlagChanged
    /\ (last.op = "clickListener" /\ ~hasToggle /\ hasSidebar) =>
          /\ last.fault <=>
                (/\ last.width <= 991
                 /\ "sidebar-open" \in last.sidebar
                 /\ ~sidebarContains(last.target))
          /\ last.fault => "sidebar-open" \in sidebarClassList
    /\ (last.op = "clickListener" /\ ~hasSidebar) =>
          (last.fault <=> last.width <= 991)

C16_Witness ==
    /\ last.op = "clickListener"
    /\ ~hasToggle
    /\ hasSidebar
    /\ last.fault
    /\ last.width = 500
    /\ last.target = "outside"
    /\ "sidebar-open" \in sidebarClassList
    /\ before.op = "clickListener"
    /\ before.fault

====
